---- MODULE Spec2Model ----
(***************************************************************************)
(* Model of package config (src/config/config.go): the once-only           *)
(* resolution of the export service's runtime configuration from viper     *)
(* defaults, environment variables and the clowder platform descriptor.    *)
(*                                                                         *)
(* A Go pointer or optional value is a sequence of length 0 (nil) or 1.    *)
(***************************************************************************)
EXTENDS Integers, Sequences, FiniteSets, TLC

VARIABLES
    callers,    \* the goroutines of this run that call Get()
    env,        \* the process environment: key -> optional string
    clowder,    \* package clowder: [enabled, cfg (LoadedConfig)]
    files,      \* CA bundles written to local storage (paths)
    doOnce,     \* sync.Once: [done, m]; m is the goroutine holding the mutex, 0 when free
    config,     \* var config *ExportConfig: 0 is nil, otherwise an index of heap
    heap,       \* the ExportConfig objects allocated so far
    pc,         \* each caller's position inside Get()
    bucketInfo, \* each caller's local exportBucketInfo (line 178)
    ret,        \* what Get() returned to each caller (a value of config), <<>> before
    alive,      \* FALSE once an unrecovered panic has terminated the process
    trail       \* history: how often the body ran, what it read, why it panicked, and
                \* which callers found done set only after waiting for the mutex

vars == <<callers, env, clowder, files, doOnce, config, heap, pc, bucketInfo, ret, alive, trail>>

----------------------------------------------------------------------------
(* Bounds of the model *)

NumCallers == 2
MaxBrokers == 2
MaxBuckets == 2

----------------------------------------------------------------------------
(* Optional values *)

None == <<>>
Some(v) == <<v>>
IsNil(p) == Len(p) = 0
Deref(p) == p[1]

----------------------------------------------------------------------------
(* The constant of line 17 *)

ExportTopic == "platform.export.requests"

----------------------------------------------------------------------------
(* viper: defaults registered by SetDefault, then AutomaticEnv *)

EnvKeys ==
    { "HOSTNAME", "PUBLIC_PORT", "METRICS_PORT", "PRIVATE_PORT", "LOG_LEVEL", "DEBUG",
      "OPEN_API_FILE_PATH", "OPEN_API_PRIVATE_PATH", "PSKS", "EXPORTS_PSKS",
      "EXPORT_EXPIRY_DAYS",
      "PGSQL_USER", "PGSQL_PASSWORD", "PGSQL_HOSTNAME", "PGSQL_PORT", "PGSQL_DATABASE",
      "MINIO_HOST", "MINIO_PORT", "MINIO_SSL", "AWS_ACCESS_KEY", "AWS_SECRET_ACCESS_KEY",
      "KAFKA_ANNOUNCE_TOPIC", "KAFKA_BROKERS", "KAFKA_GROUP_ID", "KAFKA_EVENT_SOURCE",
      "KAFKA_EVENT_SPECVERSION", "KAFKA_EVENT_TYPE", "KAFKA_EVENT_DATASCHEMA",
      "EXPORT_SERVICE_BUCKET" }

\* os.Getenv: the value, "" when the variable is unset
Getenv(e, k) == IF IsNil(e[k]) THEN "" ELSE Deref(e[k])

\* strings.Split(s, ","): the comma-separated items; one empty item for ""
SplitComma(s) ==
    CASE s = "k1,k2"              -> <<"k1", "k2">>
      [] s = "kafka1:9092,kafka2:9092" -> <<"kafka1:9092", "kafka2:9092">>
      [] OTHER                    -> <<s>>

\* strings.Fields(s): the whitespace-separated items (cast.ToStringSlice of a string)
Fields(s) ==
    CASE s = ""       -> <<>>
      [] s = "k1 k2"  -> <<"k1", "k2">>
      [] OTHER        -> <<s>>

\* cast.ToInt of a string: the number it spells, 0 when it spells none
ToInt(s) ==
    CASE s = "7"     -> 7
      [] s = "30"    -> 30
      [] s = "443"   -> 443
      [] s = "8000"  -> 8000
      [] s = "8080"  -> 8080
      [] s = "9000"  -> 9000
      [] s = "9090"  -> 9090
      [] s = "9099"  -> 9099
      [] s = "10000" -> 10000
      [] s = "10010" -> 10010
      [] OTHER       -> 0

\* cast.ToBool of a string: strconv.ParseBool, false when it does not parse
ToBool(s) == s \in {"1", "t", "T", "true", "TRUE", "True"}

\* The scalar defaults of lines 92-121, as viper would print them
SetDefault ==
    [k \in EnvKeys |->
        CASE k = "PUBLIC_PORT"             -> Some("8000")
          [] k = "METRICS_PORT"            -> Some("9000")
          [] k = "PRIVATE_PORT"            -> Some("10000")
          [] k = "LOG_LEVEL"               -> Some("INFO")
          [] k = "DEBUG"                   -> Some("false")
          [] k = "OPEN_API_FILE_PATH"      -> Some("./static/spec/openapi.json")
          [] k = "OPEN_API_PRIVATE_PATH"   -> Some("./static/spec/private.json")
          [] k = "EXPORT_EXPIRY_DAYS"      -> Some("7")
          [] k = "PGSQL_USER"              -> Some("postgres")
          [] k = "PGSQL_PASSWORD"          -> Some("postgres")
          [] k = "PGSQL_HOSTNAME"          -> Some("localhost")
          [] k = "PGSQL_PORT"              -> Some("15433")
          [] k = "PGSQL_DATABASE"          -> Some("postgres")
          [] k = "MINIO_HOST"              -> Some("localhost")
          [] k = "MINIO_PORT"              -> Some("9099")
          [] k = "MINIO_SSL"               -> Some("false")
          [] k = "KAFKA_ANNOUNCE_TOPIC"    -> Some(ExportTopic)
          [] k = "KAFKA_GROUP_ID"          -> Some("export")
          [] k = "KAFKA_EVENT_SOURCE"      -> Some("urn:redhat:source:export-service")
          [] k = "KAFKA_EVENT_SPECVERSION" -> Some("1.0")
          [] k = "KAFKA_EVENT_TYPE"        -> Some("com.redhat.console.export-service.request")
          [] k = "KAFKA_EVENT_DATASCHEMA"  ->
                Some("https://github.com/RedHatInsights/event-schemas/blob/main/schemas/apps/export-service/v1/export-request.json")
          [] OTHER                         -> None]

\* AutomaticEnv: a variable counts as set only when it is present and not empty
\* (viper's AllowEmptyEnv is off unless asked for)
IsSet(e, k) == ~IsNil(e[k]) /\ Deref(e[k]) # ""

\* GetString as it would be had AutomaticEnv not been called: the default only
GetStringNoEnv(e, k) == IF ~IsNil(SetDefault[k]) THEN Deref(SetDefault[k]) ELSE ""

\* viper.GetString: the environment first, then the default, then ""
GetString(e, k) ==
    IF IsSet(e, k) THEN Deref(e[k])
    ELSE IF ~IsNil(SetDefault[k]) THEN Deref(SetDefault[k])
    ELSE ""

GetInt(e, k) == ToInt(GetString(e, k))

GetBool(e, k) == ToBool(GetString(e, k))

\* viper.GetStringSlice for the two keys whose default is a list computed from the
\* environment (lines 99, 116): a set variable is split on white space, the default
\* was split on commas
GetStringSlice(e, k, defaultFrom) ==
    IF IsSet(e, k) THEN Fields(Deref(e[k])) ELSE SplitComma(Getenv(e, defaultFrom))

----------------------------------------------------------------------------
(* The configuration structures, lines 20-83 *)

ZeroDbSSLConfig == [RdsCa |-> None, SSLMode |-> ""]

ZeroDbConfig ==
    [User |-> "", Password |-> "", Hostname |-> "", Port |-> "", Name |-> "",
     SSLCfg |-> ZeroDbSSLConfig]

ZeroKafkaSSLConfig ==
    [CA |-> "", Username |-> "", Password |-> "", SASLMechanism |-> "", Protocol |-> ""]

ZeroKafkaConfig ==
    [Brokers |-> <<>>, GroupID |-> "", ExportsTopic |-> "", SSLConfig |-> ZeroKafkaSSLConfig,
     EventSource |-> "", EventSpecVersion |-> "", EventType |-> "", EventDataSchema |-> ""]

ZeroStorageConfig ==
    [Bucket |-> "", Endpoint |-> "", AccessKey |-> "", SecretKey |-> "", UseSSL |-> FALSE]

\* buildBaseHttpUrl without its TLS branch
buildBaseHttpUrlPlain(tlsEnabled, hostname, port) ==
    "http" \o "://" \o hostname \o ":" \o ToString(port)

\* func buildBaseHttpUrl, lines 252-259
buildBaseHttpUrl(tlsEnabled, hostname, port) ==
    LET protocol == IF tlsEnabled THEN "https" ELSE "http"
    IN  protocol \o "://" \o hostname \o ":" \o ToString(port)

----------------------------------------------------------------------------
(* The body of doOnce.Do, lines 91-232, stage by stage.  A stage that can  *)
(* panic yields [conf, panic]: the object as the stage left it and the     *)
(* reason, "" when it ran through.                                         *)

Ran(c) == [conf |-> c, panic |-> ""]
Panicked(c, why) == [conf |-> c, panic |-> why]

NilDeref == "invalid memory address or nil pointer dereference"
IndexRange == "index out of range"
RdsCaFailed == "RDS CA failed to write"
KafkaCaFailed == "Kafka CA failed to write"

\* lines 128-139: config = &ExportConfig{...}
NewExportConfig(e) ==
    [Hostname           |-> GetString(e, "HOSTNAME"),
     PublicPort         |-> GetInt(e, "PUBLIC_PORT"),
     MetricsPort        |-> GetInt(e, "METRICS_PORT"),
     PrivatePort        |-> GetInt(e, "PRIVATE_PORT"),
     Logging            |-> None,
     LogLevel           |-> GetString(e, "LOG_LEVEL"),
     Debug              |-> GetBool(e, "DEBUG"),
     DBConfig           |-> ZeroDbConfig,
     StorageConfig      |-> ZeroStorageConfig,
     KafkaConfig        |-> ZeroKafkaConfig,
     OpenAPIPrivatePath |-> GetString(e, "OPEN_API_PRIVATE_PATH"),
     OpenAPIPublicPath  |-> GetString(e, "OPEN_API_FILE_PATH"),
     Psks               |-> GetStringSlice(e, "PSKS", "EXPORTS_PSKS"),
     ExportExpiryDays   |-> GetInt(e, "EXPORT_EXPIRY_DAYS")]

\* lines 141-150
EnvDBConfig(e) ==
    [User     |-> GetString(e, "PGSQL_USER"),
     Password |-> GetString(e, "PGSQL_PASSWORD"),
     Hostname |-> GetString(e, "PGSQL_HOSTNAME"),
     Port     |-> GetString(e, "PGSQL_PORT"),
     Name     |-> GetString(e, "PGSQL_DATABASE"),
     SSLCfg   |-> [RdsCa |-> None, SSLMode |-> "disable"]]

\* lines 152-158
EnvStorageConfig(e) ==
    [Bucket    |-> "exports-bucket",
     Endpoint  |-> buildBaseHttpUrl(GetBool(e, "MINIO_SSL"), GetString(e, "MINIO_HOST"),
                                    GetInt(e, "MINIO_PORT")),
     AccessKey |-> GetString(e, "AWS_ACCESS_KEY"),
     SecretKey |-> GetString(e, "AWS_SECRET_ACCESS_KEY"),
     UseSSL    |-> GetBool(e, "MINIO_SSL")]

\* lines 160-168
EnvKafkaConfig(e) ==
    [Brokers          |-> GetStringSlice(e, "KAFKA_BROKERS", "KAFKA_BROKERS"),
     GroupID          |-> GetString(e, "KAFKA_GROUP_ID"),
     ExportsTopic     |-> GetString(e, "KAFKA_ANNOUNCE_TOPIC"),
     SSLConfig        |-> ZeroKafkaSSLConfig,
     EventSource      |-> GetString(e, "KAFKA_EVENT_SOURCE"),
     EventSpecVersion |-> GetString(e, "KAFKA_EVENT_SPECVERSION"),
     EventType        |-> GetString(e, "KAFKA_EVENT_TYPE"),
     EventDataSchema  |-> GetString(e, "KAFKA_EVENT_DATASCHEMA")]

\* lines 141-168: the three structures resolved from defaults and environment
EnvStage(c, e) ==
    [c EXCEPT !.DBConfig = EnvDBConfig(e),
              !.StorageConfig = EnvStorageConfig(e),
              !.KafkaConfig = EnvKafkaConfig(e)]

\* lines 173-175: the two optional ports are dereferenced without a check
PlatformPorts(c, cfg) ==
    IF IsNil(cfg.PublicPort) THEN Panicked(c, NilDeref)
    ELSE LET c1 == [c EXCEPT !.PublicPort = Deref(cfg.PublicPort),
                             !.MetricsPort = cfg.MetricsPort]
         IN  IF IsNil(cfg.PrivatePort) THEN Panicked(c1, NilDeref)
             ELSE Ran([c1 EXCEPT !.PrivatePort = Deref(cfg.PrivatePort)])

\* clowder.ObjectBuckets: the platform's buckets keyed by requested name; Go's map
\* index yields the zero ObjectStoreBucket for a key that is not there
ZeroBucket == [Name |-> "", RequestedName |-> "", AccessKey |-> None, SecretKey |-> None]

ObjectBuckets(cfg, name) ==
    LET hits == {i \in 1..Len(cfg.ObjectStore.Buckets) :
                    cfg.ObjectStore.Buckets[i].RequestedName = name}
    IN  IF hits = {} THEN ZeroBucket
        ELSE cfg.ObjectStore.Buckets[CHOOSE i \in hits : \A j \in hits : j <= i]

\* clowder.KafkaServers: "host:port" of every platform broker
KafkaServers(cfg) ==
    [i \in 1..Len(cfg.Kafka.Brokers) |->
        cfg.Kafka.Brokers[i].Hostname \o ":" \o ToString(cfg.Kafka.Brokers[i].Port)]

\* where cfg.RdsCa() and cfg.KafkaCa() write the bundles
RdsCaFile == "/tmp/rdsca/rds.pem"
KafkaCaFile == "/tmp/kafkaca/kafka.pem"

\* getRdsCaPath that writes the bundle but forgets to hand the path back
getRdsCaPathDropped(cfg, written) ==
    [path |-> None, err |-> ~IsNil(cfg.Database.RdsCa) /\ ~written]

\* func getRdsCaPath, lines 238-250; written tells whether cfg.RdsCa() could write
getRdsCaPath(cfg, written) ==
    IF ~IsNil(cfg.Database.RdsCa)
    THEN IF ~written THEN [path |-> None, err |-> TRUE]
         ELSE [path |-> Some(RdsCaFile), err |-> FALSE]
    ELSE [path |-> None, err |-> FALSE]

\* lines 185-195: the whole DBConfig is replaced
PlatformDBConfig(cfg, rdsCaPath) ==
    [User     |-> cfg.Database.Username,
     Password |-> cfg.Database.Password,
     Hostname |-> cfg.Database.Hostname,
     Port     |-> ToString(cfg.Database.Port),
     Name     |-> cfg.Database.Name,
     SSLCfg   |-> [SSLMode |-> cfg.Database.SslMode, RdsCa |-> rdsCaPath]]

\* the database stage as a field-by-field merge: only the fields the environment left
\* at their defaults are taken from the platform
PlatformDatabaseMerged(c, cfg, written) ==
    LET r == getRdsCaPath(cfg, written)
        p == PlatformDBConfig(cfg, r.path)
    IN  IF r.err THEN Panicked(c, RdsCaFailed)
        ELSE Ran([c EXCEPT !.DBConfig =
                    [p EXCEPT !.User = IF c.DBConfig.User = "postgres" THEN p.User
                                       ELSE c.DBConfig.User]])

\* lines 180-195
PlatformDatabase(c, cfg, written) ==
    LET r == getRdsCaPath(cfg, written)
    IN  IF r.err THEN Panicked(c, RdsCaFailed)
        ELSE Ran([c EXCEPT !.DBConfig = PlatformDBConfig(cfg, r.path)])

\* the broker that decides, were it the first one that declares an authentication type
AnyAuthBroker(cfg) ==
    LET auth == {i \in 1..Len(cfg.Kafka.Brokers) : ~IsNil(cfg.Kafka.Brokers[i].Authtype)}
    IN  IF auth = {} THEN cfg.Kafka.Brokers[1]
        ELSE cfg.Kafka.Brokers[CHOOSE i \in auth : \A j \in auth : i <= j]

\* line 198: broker := cfg.Kafka.Brokers[0]
FirstBroker(cfg) == cfg.Kafka.Brokers[1]

\* lines 197-215: the broker list is replaced, the first broker decides the SSL policy
PlatformKafka(c, cfg, written) ==
    LET c1 == [c EXCEPT !.KafkaConfig.Brokers = KafkaServers(cfg)]
    IN  IF Len(cfg.Kafka.Brokers) = 0 THEN Panicked(c1, IndexRange)
        ELSE LET broker == FirstBroker(cfg)
             IN  IF IsNil(broker.Authtype) THEN Ran(c1)
                 ELSE IF ~written THEN Panicked(c1, KafkaCaFailed)
                 ELSE IF IsNil(broker.Sasl) THEN Panicked(c1, NilDeref)
                 ELSE LET securityProtocol ==
                              IF ~IsNil(broker.SecurityProtocol)
                              THEN Deref(broker.SecurityProtocol) ELSE "sasl_ssl"
                          sasl == Deref(broker.Sasl)
                      IN  IF IsNil(sasl.Username) \/ IsNil(sasl.Password)
                             \/ IsNil(sasl.SaslMechanism)
                          THEN Panicked(c1, NilDeref)
                          ELSE Ran([c1 EXCEPT !.KafkaConfig.SSLConfig =
                                      [Username      |-> Deref(sasl.Username),
                                       Password      |-> Deref(sasl.Password),
                                       SASLMechanism |-> Deref(sasl.SaslMechanism),
                                       Protocol      |-> securityProtocol,
                                       CA            |-> KafkaCaFile]])

\* the logging stage left out
PlatformLoggingSkipped(c, cfg) == c

\* lines 217-222
PlatformLogging(c, cfg) ==
    [c EXCEPT !.Logging = Some(
        [AccessKeyID     |-> cfg.Logging.Cloudwatch.AccessKeyId,
         SecretAccessKey |-> cfg.Logging.Cloudwatch.SecretAccessKey,
         LogGroup        |-> cfg.Logging.Cloudwatch.LogGroup,
         Region          |-> cfg.Logging.Cloudwatch.Region])]

\* the storage stage taking the keys of the bucket EXPORT_SERVICE_BUCKET names
PlatformStorageByName(c, cfg, exportBucketInfo) ==
    IF IsNil(exportBucketInfo.AccessKey) \/ IsNil(exportBucketInfo.SecretKey)
    THEN Panicked(c, NilDeref)
    ELSE Ran([c EXCEPT !.StorageConfig =
                [Bucket    |-> exportBucketInfo.RequestedName,
                 Endpoint  |-> buildBaseHttpUrl(cfg.ObjectStore.Tls,
                                   cfg.ObjectStore.Hostname, cfg.ObjectStore.Port),
                 AccessKey |-> Deref(exportBucketInfo.AccessKey),
                 SecretKey |-> Deref(exportBucketInfo.SecretKey),
                 UseSSL    |-> cfg.ObjectStore.Tls]])

\* lines 224-231: the first bucket's keys, the looked-up bucket's requested name
PlatformStorage(c, cfg, exportBucketInfo) ==
    IF Len(cfg.ObjectStore.Buckets) = 0 THEN Panicked(c, IndexRange)
    ELSE LET bucket == cfg.ObjectStore.Buckets[1]
         IN  IF IsNil(bucket.AccessKey) \/ IsNil(bucket.SecretKey)
             THEN Panicked(c, NilDeref)
             ELSE Ran([c EXCEPT !.StorageConfig =
                         [Bucket    |-> exportBucketInfo.RequestedName,
                          Endpoint  |-> buildBaseHttpUrl(cfg.ObjectStore.Tls,
                                            cfg.ObjectStore.Hostname, cfg.ObjectStore.Port),
                          AccessKey |-> Deref(bucket.AccessKey),
                          SecretKey |-> Deref(bucket.SecretKey),
                          UseSSL    |-> cfg.ObjectStore.Tls]])

----------------------------------------------------------------------------
(* The environments and platform descriptors the process may start with *)

NoEnv == [k \in EnvKeys |-> None]

\* values a deployment may give a variable
EnvValues(k) ==
    CASE k = "PUBLIC_PORT"           -> {"8080", "abc"}
      [] k = "METRICS_PORT"          -> {"9090"}
      [] k = "PRIVATE_PORT"          -> {"10010"}
      [] k = "EXPORT_EXPIRY_DAYS"    -> {"30"}
      [] k = "DEBUG"                 -> {"true"}
      [] k = "PGSQL_USER"            -> {"alice", ""}
      [] k = "PGSQL_PORT"            -> {"5432"}
      [] k = "MINIO_HOST"            -> {"minio"}
      [] k = "MINIO_PORT"            -> {"443"}
      [] k = "MINIO_SSL"             -> {"true"}
      [] k = "PSKS"                  -> {"k1 k2"}
      [] k = "EXPORTS_PSKS"          -> {"k1,k2"}
      [] k = "KAFKA_BROKERS"         -> {"kafka1:9092,kafka2:9092"}
      [] k = "EXPORT_SERVICE_BUCKET" -> {"exports-bucket", "other"}
      [] OTHER                       -> {"custom"}

\* one variable set, all others unset
OneVarEnvs == UNION {{[NoEnv EXCEPT ![k] = Some(v)] : v \in EnvValues(k)} : k \in EnvKeys}

\* an environment that contradicts the platform on every key the platform also decides
ContraryEnv ==
    [NoEnv EXCEPT !["PUBLIC_PORT"] = Some("8080"),
                  !["PGSQL_USER"] = Some("alice"),
                  !["PGSQL_HOSTNAME"] = Some("custom"),
                  !["MINIO_HOST"] = Some("minio"),
                  !["MINIO_PORT"] = Some("443"),
                  !["MINIO_SSL"] = Some("true"),
                  !["AWS_ACCESS_KEY"] = Some("custom"),
                  !["KAFKA_BROKERS"] = Some("kafka1:9092,kafka2:9092"),
                  !["KAFKA_GROUP_ID"] = Some("custom"),
                  !["KAFKA_ANNOUNCE_TOPIC"] = Some("custom"),
                  !["EXPORT_SERVICE_BUCKET"] = Some("other")]

Environments == {NoEnv, ContraryEnv} \cup OneVarEnvs

SaslCreds ==
    [Username |-> Some("kuser"), Password |-> Some("kpass"), SaslMechanism |-> Some("PLAIN")]

\* a platform broker: without authentication, with it (security protocol declared or
\* not), and with an authentication type but no SASL section
Broker(host, auth, proto, sasl) ==
    [Hostname |-> host, Port |-> 9092, Authtype |-> auth, SecurityProtocol |-> proto,
     Sasl |-> sasl]

FirstBrokers ==
    { Broker("kafka1", None, None, None),
      Broker("kafka1", Some("sasl"), Some("SASL_PLAINTEXT"), Some(SaslCreds)),
      Broker("kafka1", Some("sasl"), None, Some(SaslCreds)),
      Broker("kafka1", Some("sasl"), None, None) }

LaterBrokers ==
    { Broker("kafka2", None, None, None),
      Broker("kafka2", Some("sasl"), Some("SSL"), Some(SaslCreds)) }

BrokerLists ==
    UNION {{b \in [1..n -> FirstBrokers \cup LaterBrokers] :
                \A i \in 1..n : IF i = 1 THEN b[i] \in FirstBrokers ELSE b[i] \in LaterBrokers}
           : n \in 0..MaxBrokers}

Bucket(name, requested, access, secret) ==
    [Name |-> name, RequestedName |-> requested, AccessKey |-> access, SecretKey |-> secret]

FirstBuckets ==
    { Bucket("exports-1a2b", "exports-bucket", Some("ak1"), Some("sk1")),
      Bucket("other-3c4d", "other", Some("ak2"), Some("sk2")),
      Bucket("bare-5e6f", "bare", None, None) }

LaterBuckets ==
    { Bucket("exports-1a2b", "exports-bucket", Some("ak1"), Some("sk1")),
      Bucket("other-3c4d", "other", Some("ak2"), Some("sk2")) }

BucketLists ==
    UNION {{b \in [1..n -> FirstBuckets \cup LaterBuckets] :
                \A i \in 1..n : IF i = 1 THEN b[i] \in FirstBuckets ELSE b[i] \in LaterBuckets}
           : n \in 0..MaxBuckets}

\* clowder.LoadedConfig as far as Get() reads it
AppConfig(ports, rdsCa, brokers, tls, buckets) ==
    [PublicPort  |-> ports[1],
     MetricsPort |-> 9443,
     PrivatePort |-> ports[2],
     Database    |-> [Username |-> "bob", Password |-> "dbpass", Hostname |-> "db.svc",
                      Port |-> 5432, Name |-> "exports", SslMode |-> "verify-full",
                      RdsCa |-> rdsCa],
     Kafka       |-> [Brokers |-> brokers],
     Logging     |-> [Cloudwatch |-> [AccessKeyId |-> "cw-id", SecretAccessKey |-> "cw-secret",
                                       LogGroup |-> "cw-group", Region |-> "us-east-1"]],
     ObjectStore |-> [Tls |-> tls, Hostname |-> "s3.svc", Port |-> 9000, Buckets |-> buckets]]

\* the optional public and private port: both declared, or one of them missing
PortPairs == {<<Some(8443), Some(10443)>>, <<None, Some(10443)>>, <<Some(8443), None>>}

AppConfigs ==
    { AppConfig(pp, ca, br, tls, bk) :
        pp \in PortPairs, ca \in {None, Some("-----BEGIN CERTIFICATE-----")},
        br \in BrokerLists, tls \in BOOLEAN, bk \in BucketLists }

\* the descriptor of a plain deployment: one broker without authentication, one bucket
PlainAppConfig ==
    AppConfig(<<Some(8443), Some(10443)>>, None, <<Broker("kafka1", None, None, None)>>, FALSE,
              <<Bucket("exports-1a2b", "exports-bucket", Some("ak1"), Some("sk1"))>>)

\* a deployment with both CA bundles and two buckets
SecuredAppConfig ==
    AppConfig(<<Some(8443), Some(10443)>>, Some("-----BEGIN CERTIFICATE-----"),
              <<Broker("kafka1", Some("sasl"), None, Some(SaslCreds))>>, TRUE,
              <<Bucket("exports-1a2b", "exports-bucket", Some("ak1"), Some("sk1")),
                Bucket("other-3c4d", "other", Some("ak2"), Some("sk2"))>>)

\* IsClowderEnabled() false: LoadedConfig is never read
ClowderOff == [enabled |-> FALSE, cfg |-> PlainAppConfig]
ClowderOn(cfg) == [enabled |-> TRUE, cfg |-> cfg]

----------------------------------------------------------------------------
(* The state after package initialisation *)

Callers == 1..NumCallers

\* several goroutines racing for the first Get()
ConcurrentStart ==
    /\ callers = Callers
    /\ env \in {NoEnv, ContraryEnv}
    /\ clowder \in {ClowderOff, ClowderOn(PlainAppConfig), ClowderOn(SecuredAppConfig)}

\* one goroutine, every environment and every platform descriptor
SingleStart ==
    /\ callers = {1}
    /\ \/ env \in Environments /\ clowder \in {ClowderOff, ClowderOn(PlainAppConfig)}
       \/ env \in {NoEnv, ContraryEnv} /\ clowder \in {ClowderOn(cfg) : cfg \in AppConfigs}

Init ==
    /\ ConcurrentStart \/ SingleStart
    /\ files = {}
    /\ doOnce = [done |-> FALSE, m |-> 0]
    /\ config = 0
    /\ heap = <<>>
    /\ pc = [c \in callers |-> "idle"]
    /\ bucketInfo = [c \in callers |-> ZeroBucket]
    /\ ret = [c \in callers |-> None]
    /\ alive = TRUE
    /\ trail = [runs |-> 0, env |-> env, clowder |-> clowder, panic |-> "", waited |-> {}]

----------------------------------------------------------------------------
(* sync.Once, as Get() uses it on line 90 *)

\* a Once whose done flag is never seen set
DoneNeverSeen == FALSE

\* a Get() that takes "config is assigned" for "the resolution is over"
ConfigAssigned == config # 0

\* o.done.Load() != 0
Done == doOnce.done

\* o.m is free to lock
MutexFree == doOnce.m = 0

\* Get() is entered; Once.Do's fast path skips the body once done is set
Call(c) ==
    /\ alive /\ pc[c] = "idle"
    /\ pc' = [pc EXCEPT ![c] = IF Done THEN "return" ELSE "lock"]
    /\ UNCHANGED <<callers, env, clowder, files, doOnce, config, heap, bucketInfo, ret, alive, trail>>

\* doSlow: o.m.Lock(), then done is read again; a caller that finds it set unlocks
\* and leaves, the other one runs the body holding the mutex
Lock(c) ==
    /\ alive /\ pc[c] = "lock" /\ MutexFree
    /\ IF Done
       THEN /\ pc' = [pc EXCEPT ![c] = "return"]
            /\ trail' = [trail EXCEPT !.waited = @ \cup {c}]
            /\ UNCHANGED doOnce
       ELSE /\ pc' = [pc EXCEPT ![c] = "alloc"]
            /\ doOnce' = [doOnce EXCEPT !.m = c]
            /\ UNCHANGED trail
    /\ UNCHANGED <<callers, env, clowder, files, config, heap, bucketInfo, ret, alive>>

\* the body returns: the deferred done.Store(1) and m.Unlock()
Exit(c) ==
    /\ alive /\ pc[c] = "exit"
    /\ doOnce' = [done |-> TRUE, m |-> 0]
    /\ pc' = [pc EXCEPT ![c] = "return"]
    /\ UNCHANGED <<callers, env, clowder, files, config, heap, bucketInfo, ret, alive, trail>>

\* a stage of the body has run on the object config points to: either it ran through,
\* or it panicked, and then the deferred calls of Once.Do still set done and unlock
\* while the panic unwinds the caller
Stage(c, r, next) ==
    /\ heap' = [heap EXCEPT ![config] = r.conf]
    /\ IF r.panic = ""
       THEN /\ pc' = [pc EXCEPT ![c] = next]
            /\ UNCHANGED <<doOnce, trail>>
       ELSE /\ pc' = [pc EXCEPT ![c] = "panicking"]
            /\ doOnce' = [done |-> TRUE, m |-> 0]
            /\ trail' = [trail EXCEPT !.panic = r.panic]

----------------------------------------------------------------------------
(* func Get, lines 89-236 *)

\* lines 91-139: the options are read and config points to a new ExportConfig
Alloc(c) ==
    /\ alive /\ pc[c] = "alloc"
    /\ heap' = Append(heap, NewExportConfig(env))
    /\ config' = Len(heap) + 1
    /\ trail' = [trail EXCEPT !.runs = @ + 1, !.env = env, !.clowder = clowder]
    /\ pc' = [pc EXCEPT ![c] = "env"]
    /\ UNCHANGED <<callers, env, clowder, files, doOnce, bucketInfo, ret, alive>>

\* lines 141-170
FromEnv(c) ==
    /\ alive /\ pc[c] = "env"
    /\ heap' = [heap EXCEPT ![config] = EnvStage(heap[config], env)]
    /\ pc' = [pc EXCEPT ![c] = IF clowder.enabled THEN "ports" ELSE "exit"]
    /\ UNCHANGED <<callers, env, clowder, files, doOnce, config, bucketInfo, ret, alive, trail>>

\* lines 171-178
Ports(c) ==
    /\ alive /\ pc[c] = "ports"
    /\ Stage(c, PlatformPorts(heap[config], clowder.cfg), "database")
    /\ bucketInfo' = [bucketInfo EXCEPT
                        ![c] = ObjectBuckets(clowder.cfg, GetString(env, "EXPORT_SERVICE_BUCKET"))]
    /\ UNCHANGED <<callers, env, clowder, files, config, ret, alive>>

\* lines 180-195; cfg.RdsCa() writes the bundle or fails
Database(c) ==
    /\ alive /\ pc[c] = "database"
    /\ \E written \in BOOLEAN :
        /\ Stage(c, PlatformDatabase(heap[config], clowder.cfg, written), "kafka")
        /\ files' = IF written /\ ~IsNil(clowder.cfg.Database.RdsCa)
                    THEN files \cup {RdsCaFile} ELSE files
    /\ UNCHANGED <<callers, env, clowder, config, bucketInfo, ret, alive>>

\* lines 197-215; cfg.KafkaCa(broker) writes the bundle or fails
Kafka(c) ==
    /\ alive /\ pc[c] = "kafka"
    /\ \E written \in BOOLEAN :
        /\ Stage(c, PlatformKafka(heap[config], clowder.cfg, written), "logging")
        /\ files' = IF /\ written
                       /\ Len(clowder.cfg.Kafka.Brokers) > 0
                       /\ ~IsNil(clowder.cfg.Kafka.Brokers[1].Authtype)
                    THEN files \cup {KafkaCaFile} ELSE files
    /\ UNCHANGED <<callers, env, clowder, config, bucketInfo, ret, alive>>

\* lines 217-222
Logging(c) ==
    /\ alive /\ pc[c] = "logging"
    /\ Stage(c, Ran(PlatformLogging(heap[config], clowder.cfg)), "storage")
    /\ UNCHANGED <<callers, env, clowder, files, config, bucketInfo, ret, alive>>

\* lines 224-232
Storage(c) ==
    /\ alive /\ pc[c] = "storage"
    /\ Stage(c, PlatformStorage(heap[config], clowder.cfg, bucketInfo[c]), "exit")
    /\ UNCHANGED <<callers, env, clowder, files, config, bucketInfo, ret, alive>>

\* line 235: return config
Return(c) ==
    /\ alive /\ pc[c] = "return"
    /\ ret' = [ret EXCEPT ![c] = Some(config)]
    /\ pc' = [pc EXCEPT ![c] = "returned"]
    /\ UNCHANGED <<callers, env, clowder, files, doOnce, config, heap, bucketInfo, alive, trail>>

\* the panic of line 182 or 202, or a run-time panic, reaches the top of the goroutine
\* that ran the body: the runtime ends the process
Crash(c) ==
    /\ alive /\ pc[c] = "panicking"
    /\ alive' = FALSE
    /\ pc' = [pc EXCEPT ![c] = "crashed"]
    /\ UNCHANGED <<callers, env, clowder, files, doOnce, config, heap, bucketInfo, ret, trail>>

----------------------------------------------------------------------------
(* The sources change after the first resolution *)

\* os.Setenv by some other part of the process
Setenv(k, v) ==
    /\ alive /\ doOnce.done
    /\ env[k] # Some(v)
    /\ env' = [env EXCEPT ![k] = Some(v)]
    /\ UNCHANGED <<callers, clowder, files, doOnce, config, heap, pc, bucketInfo, ret, alive, trail>>

\* the platform descriptor is loaded again with other database credentials
Reload ==
    /\ alive /\ doOnce.done
    /\ clowder.enabled /\ clowder.cfg.Database.Username # "eve"
    /\ clowder' = [clowder EXCEPT !.cfg.Database.Username = "eve"]
    /\ UNCHANGED <<callers, env, files, doOnce, config, heap, pc, bucketInfo, ret, alive, trail>>

Next ==
    \/ \E c \in callers : Call(c)
    \/ \E c \in callers : Lock(c)
    \/ \E c \in callers : Alloc(c)
    \/ \E c \in callers : FromEnv(c)
    \/ \E c \in callers : Ports(c)
    \/ \E c \in callers : Database(c)
    \/ \E c \in callers : Kafka(c)
    \/ \E c \in callers : Logging(c)
    \/ \E c \in callers : Storage(c)
    \/ \E c \in callers : Exit(c)
    \/ \E c \in callers : Return(c)
    \/ \E c \in callers : Crash(c)
    \/ Setenv("PGSQL_USER", "mallory")
    \/ Reload

Spec == Init /\ [][Next]_vars

----------------------------------------------------------------------------
(* What the claims speak about *)

\* the body ran to its end: done was set by a normal return, not by a panic
Resolved == doOnce.done /\ trail.panic = "" /\ config # 0

\* the snapshot config points to
Snapshot == heap[config]

\* the sources as the body read them
ReadEnv == trail.env
Platform == trail.clowder.cfg
Injected == trail.clowder.enabled

InBody(c) == pc[c] \in {"alloc", "env", "ports", "database", "kafka", "logging", "storage", "exit"}

Returned(c) == ~IsNil(ret[c])

\* a variable's value when it is present and not empty, d otherwise
ValueOr(k, d) == IF ~IsNil(ReadEnv[k]) /\ Deref(ReadEnv[k]) # "" THEN Deref(ReadEnv[k]) ELSE d

\* a variable's value when it is present, d otherwise
PresentOr(k, d) == IF ~IsNil(ReadEnv[k]) THEN Deref(ReadEnv[k]) ELSE d

----------------------------------------------------------------------------
\* C1: however many callers call Get() and however they interleave, the body runs at
\* most once, all callers that return hold the same pointer, and once the resolution
\* is over neither the pointer nor the object behind it changes, whatever happens to
\* the environment or the platform descriptor afterwards.
C1_OnceSameInstance ==
    /\ [](/\ trail.runs <= 1
          /\ \A c, d \in callers : Returned(c) /\ Returned(d) => ret[c] = ret[d]
          /\ \A c \in callers : Returned(c) => Deref(ret[c]) = config /\ config # 0)
    /\ [][doOnce.done => config' = config /\ heap' = heap]_vars

\* two callers have returned, one of them after the sources were changed under it
C1_Witness ==
    /\ \E c, d \in callers : c # d /\ Returned(c) /\ Returned(d) /\ ret[c] = ret[d]
    /\ trail.runs = 1
    /\ env # ReadEnv /\ clowder # trail.clowder
    /\ Snapshot.DBConfig.User = "bob"

\* C2 (as claimed): when a CA bundle could not be written, Get() returns to nobody.
C2_NoReturnAfterCaFailure ==
    trail.panic \in {RdsCaFailed, KafkaCaFailed} => \A c \in callers : ~Returned(c)

\* C3: while no stage has failed, a caller holds a return value only when the body is
\* over: no goroutine is inside it, done is set, and the object returned carries the
\* result of the last stage (with injection active: platform database, logging set,
\* platform storage).
C3_NoEarlyReturn ==
    trail.panic = "" =>
        \A c \in callers : Returned(c) =>
            /\ doOnce.done
            /\ \A d \in callers : ~InBody(d)
            /\ LET conf == heap[Deref(ret[c])]
               IN  /\ conf.DBConfig # ZeroDbConfig
                   /\ conf.StorageConfig # ZeroStorageConfig
                   /\ Injected =>
                        /\ conf.DBConfig.User = Platform.Database.Username
                        /\ ~IsNil(conf.Logging)
                        /\ conf.StorageConfig.UseSSL = Platform.ObjectStore.Tls
                        /\ conf.StorageConfig.Bucket # "exports-bucket"
                                \/ GetString(ReadEnv, "EXPORT_SERVICE_BUCKET") = "exports-bucket"

\* a caller that had to wait for the mutex has returned, with injection active
C3_Witness ==
    /\ Resolved /\ Injected
    /\ \E c \in trail.waited : Returned(c)

\* C4 (as claimed): with injection active every field of the three structures is the
\* platform's, the broker group id, topic and event envelope included: none of them
\* is still what the environment stage resolved.
C4_WholeReplacement ==
    Resolved /\ Injected =>
        LET fromEnv == EnvKafkaConfig(ReadEnv)
        IN  /\ Snapshot.DBConfig.User = Platform.Database.Username
            /\ Snapshot.StorageConfig.UseSSL = Platform.ObjectStore.Tls
            /\ Snapshot.KafkaConfig.GroupID # fromEnv.GroupID
            /\ Snapshot.KafkaConfig.ExportsTopic # fromEnv.ExportsTopic
            /\ Snapshot.KafkaConfig.EventSource # fromEnv.EventSource
            /\ Snapshot.KafkaConfig.EventSpecVersion # fromEnv.EventSpecVersion
            /\ Snapshot.KafkaConfig.EventType # fromEnv.EventType
            /\ Snapshot.KafkaConfig.EventDataSchema # fromEnv.EventDataSchema

\* C4 (amended): with injection active the database and the storage structure are the
\* platform's in every field, whatever the environment says; of the broker structure
\* the address list is the platform's, and the group id, topic and event envelope are
\* still the values of the environment stage.
C4_PlatformPrecedence ==
    Resolved /\ Injected =>
        /\ Snapshot.DBConfig.User = Platform.Database.Username
        /\ Snapshot.DBConfig.Password = Platform.Database.Password
        /\ Snapshot.DBConfig.Hostname = Platform.Database.Hostname
        /\ Snapshot.DBConfig.Port = ToString(Platform.Database.Port)
        /\ Snapshot.DBConfig.Name = Platform.Database.Name
        /\ Snapshot.DBConfig.SSLCfg.SSLMode = Platform.Database.SslMode
        /\ Snapshot.StorageConfig.Bucket \in
                {"", GetString(ReadEnv, "EXPORT_SERVICE_BUCKET")}
        /\ Snapshot.StorageConfig.Bucket # "" =>
                \E i \in 1..Len(Platform.ObjectStore.Buckets) :
                    Platform.ObjectStore.Buckets[i].RequestedName = Snapshot.StorageConfig.Bucket
        /\ Snapshot.StorageConfig.UseSSL = Platform.ObjectStore.Tls
        /\ Some(Snapshot.StorageConfig.AccessKey) = Platform.ObjectStore.Buckets[1].AccessKey
        /\ Some(Snapshot.StorageConfig.SecretKey) = Platform.ObjectStore.Buckets[1].SecretKey
        /\ Snapshot.StorageConfig.Endpoint =
                (IF Platform.ObjectStore.Tls THEN "https://" ELSE "http://")
                    \o Platform.ObjectStore.Hostname \o ":" \o ToString(Platform.ObjectStore.Port)
        /\ Len(Snapshot.KafkaConfig.Brokers) = Len(Platform.Kafka.Brokers)
        /\ \A i \in 1..Len(Platform.Kafka.Brokers) :
                Snapshot.KafkaConfig.Brokers[i] =
                    Platform.Kafka.Brokers[i].Hostname \o ":"
                        \o ToString(Platform.Kafka.Brokers[i].Port)
        /\ Snapshot.KafkaConfig.GroupID = ValueOr("KAFKA_GROUP_ID", "export")
        /\ Snapshot.KafkaConfig.ExportsTopic = ValueOr("KAFKA_ANNOUNCE_TOPIC", ExportTopic)
        /\ Snapshot.KafkaConfig.EventSource =
                ValueOr("KAFKA_EVENT_SOURCE", "urn:redhat:source:export-service")
        /\ Snapshot.KafkaConfig.EventSpecVersion = ValueOr("KAFKA_EVENT_SPECVERSION", "1.0")
        /\ Snapshot.KafkaConfig.EventType =
                ValueOr("KAFKA_EVENT_TYPE", "com.redhat.console.export-service.request")
        /\ Snapshot.KafkaConfig.EventDataSchema =
                ValueOr("KAFKA_EVENT_DATASCHEMA", Deref(SetDefault["KAFKA_EVENT_DATASCHEMA"]))

\* injection resolved against an environment that names alice, a group id and a topic
C4_Witness ==
    /\ Resolved /\ Injected
    /\ ReadEnv["PGSQL_USER"] = Some("alice") /\ Snapshot.DBConfig.User = "bob"
    /\ ReadEnv["KAFKA_GROUP_ID"] = Some("custom") /\ Snapshot.KafkaConfig.GroupID = "custom"
    /\ ReadEnv["MINIO_SSL"] = Some("true") /\ ~Snapshot.StorageConfig.UseSSL

C6_BrokerSslPolicy ==
    Resolved =>
        LET policy == Snapshot.KafkaConfig.SSLConfig
            first == Platform.Kafka.Brokers[1]
        IN  /\ (policy # ZeroKafkaSSLConfig) <=> (Injected /\ ~IsNil(first.Authtype))
            /\ policy # ZeroKafkaSSLConfig =>
                 policy.Protocol = IF IsNil(first.SecurityProtocol) THEN "sasl_ssl"
                                   ELSE Deref(first.SecurityProtocol)

\* the first broker declares no authentication type, a later one does, and the
\* policy is unset
C6_Witness ==
    /\ Resolved /\ Injected
    /\ Len(Platform.Kafka.Brokers) > 1
    /\ IsNil(Platform.Kafka.Brokers[1].Authtype)
    /\ ~IsNil(Platform.Kafka.Brokers[2].Authtype)
    /\ Snapshot.KafkaConfig.SSLConfig = ZeroKafkaSSLConfig

\* C7: after a successful resolution RdsCa is set exactly when injection is active
\* and the platform database declares an RDS CA bundle; it then names the file the
\* materialization wrote; without injection it is nil and the SSL mode is "disable".
C7_RdsCaPresence ==
    Resolved =>
        LET ssl == Snapshot.DBConfig.SSLCfg
        IN  /\ ~IsNil(ssl.RdsCa) <=> (Injected /\ ~IsNil(Platform.Database.RdsCa))
            /\ ~IsNil(ssl.RdsCa) => Deref(ssl.RdsCa) = "/tmp/rdsca/rds.pem"
                                    /\ Deref(ssl.RdsCa) \in files
            /\ ~Injected => IsNil(ssl.RdsCa) /\ ssl.SSLMode = "disable"

\* injection with a declared bundle has been resolved and the path is recorded
C7_Witness ==
    /\ Resolved /\ Injected /\ ~IsNil(Platform.Database.RdsCa)
    /\ Snapshot.DBConfig.SSLCfg.RdsCa = Some(RdsCaFile)

\* C8: in the resolved snapshot Logging is set exactly when injection is active, and
\* then its four fields are the platform's log-shipping credentials; without
\* injection the resolution ends normally with Logging unset.
C8_LoggingPresence ==
    /\ Resolved =>
        /\ ~IsNil(Snapshot.Logging) <=> Injected
        /\ Injected =>
             /\ Deref(Snapshot.Logging).AccessKeyID = Platform.Logging.Cloudwatch.AccessKeyId
             /\ Deref(Snapshot.Logging).SecretAccessKey =
                    Platform.Logging.Cloudwatch.SecretAccessKey
             /\ Deref(Snapshot.Logging).LogGroup = Platform.Logging.Cloudwatch.LogGroup
             /\ Deref(Snapshot.Logging).Region = Platform.Logging.Cloudwatch.Region
    /\ ~Injected /\ doOnce.done => Resolved

\* injection has been resolved and the logging configuration is there
C8_Witness ==
    /\ Resolved /\ Injected
    /\ Snapshot.Logging =
            Some([AccessKeyID |-> "cw-id", SecretAccessKey |-> "cw-secret",
                  LogGroup |-> "cw-group", Region |-> "us-east-1"])

\* C9: the endpoint of the resolved snapshot is scheme://host:port with scheme https
\* exactly when UseSSL is set, host and port those of MINIO_HOST and MINIO_PORT
\* without injection and those of the platform object store with it, and UseSSL the
\* TLS flag of the same source.
C9_EndpointDerived ==
    Resolved =>
        LET st == Snapshot.StorageConfig
            host == IF Injected THEN Platform.ObjectStore.Hostname
                    ELSE ValueOr("MINIO_HOST", "localhost")
            port == IF Injected THEN Platform.ObjectStore.Port
                    ELSE ToInt(ValueOr("MINIO_PORT", "9099"))
            tls == IF Injected THEN Platform.ObjectStore.Tls
                   ELSE ValueOr("MINIO_SSL", "false") = "true"
        IN  /\ st.UseSSL = tls
            /\ st.Endpoint = (IF st.UseSSL THEN "https" ELSE "http")
                                \o "://" \o host \o ":" \o ToString(port)

\* resolved without injection from MINIO_SSL=true, MINIO_HOST=minio, MINIO_PORT=443
C9_Witness ==
    /\ Resolved /\ ~Injected
    /\ Snapshot.StorageConfig.UseSSL
    /\ Snapshot.StorageConfig.Endpoint = "https://minio:443"

\* C10: with injection active a resolution that ends normally had a first broker and
\* a first bucket to take, both optional ports, the SASL fields it dereferenced and
\* the first bucket's keys; in every other case it panicked although no CA bundle
\* failed to be written.  The storage keys are the first bucket's, whichever bucket
\* EXPORT_SERVICE_BUCKET names.
C10_UncheckedPlatformData ==
    /\ Resolved /\ Injected =>
        /\ Len(Platform.Kafka.Brokers) > 0
        /\ Len(Platform.ObjectStore.Buckets) > 0
        /\ ~IsNil(Platform.PublicPort) /\ ~IsNil(Platform.PrivatePort)
        /\ ~IsNil(Platform.Kafka.Brokers[1].Authtype) => ~IsNil(Platform.Kafka.Brokers[1].Sasl)
        /\ ~IsNil(Platform.ObjectStore.Buckets[1].AccessKey)
        /\ ~IsNil(Platform.ObjectStore.Buckets[1].SecretKey)
        /\ Snapshot.StorageConfig.AccessKey = Deref(Platform.ObjectStore.Buckets[1].AccessKey)
        /\ Snapshot.StorageConfig.SecretKey = Deref(Platform.ObjectStore.Buckets[1].SecretKey)
    /\ (Injected /\ doOnce.done /\ (\/ Len(Platform.Kafka.Brokers) = 0
                                    \/ Len(Platform.ObjectStore.Buckets) = 0
                                    \/ IsNil(Platform.PublicPort)
                                    \/ IsNil(Platform.PrivatePort)))
         => trail.panic # ""

\* an empty broker list made the resolution panic after the database bundle had been
\* written: no CA materialization failed
C10_Witness ==
    /\ Injected /\ Len(Platform.Kafka.Brokers) = 0
    /\ trail.panic = IndexRange
    /\ RdsCaFile \in files
    /\ \E c \in callers : pc[c] = "crashed"

====
